---- MODULE Spec2Model ----
(***************************************************************************)
(* A model of ShardableUUID (src/src/ShardableUUID.ts): the bit packer,    *)
(* the shard-bit mixer, the base64 codec and the sequence counter kept in  *)
(* the shared store.                                                       *)
(*                                                                         *)
(* A JavaScript BigInt that is never negative is held as its binary        *)
(* numeral: a sequence of bits, most significant first, with no leading    *)
(* zero (0n is the empty sequence).  TLC's integers are 32 bits            *)
(* wide, the identifiers 72, so every shift, AND and OR of the source is   *)
(* done on numerals.  A Number that does not fit 31 bits (sec) is held as  *)
(* a numeral too; the small Numbers (type, shard, seq, msec) are integers. *)
(***************************************************************************)
EXTENDS Integers, Sequences, FiniteSets, TLC

\* ------------------------------------------------------------ constants
DATA_BIT == 62
DATA_HEAD_BIT == 11
SHARD_BIT == 10
SHARD_SLOT == 1024
MAX_SEQ == 127
MAX_TYPE == 1023

\* Field widths of the data bit set (generate, lines 46-49).
MSEC_WIDTH == 10
SEC_WIDTH == 34
TYPE_WIDTH == 10
SEQ_WIDTH == 7

\* Loop count, chunk widths and masks of mixbit / unmixbit.
MIX_ROUNDS == 10
DATA_CHUNK == 5
DATA_CHUNK_MASK == 31
MIXED_CHUNK == 6
MIXED_CHUNK_MASK == 63

\* Masks of parse for seq, type and msec (the sec mask is Ones(SEC_WIDTH)).
SEQ_MASK == 127
TYPE_MASK == 1023
MSEC_MASK == 1023

\* ------------------------------------------------------------ BigInt
Min(a, b) == IF a <= b THEN a ELSE b

\* 2^n for the n the model needs (n < 11).
Pow2(n) == <<1, 2, 4, 8, 16, 32, 64, 128, 256, 512, 1024>>[n + 1]

Zeros(n) == [i \in 1..n |-> 0]
Ones(n) == [i \in 1..n |-> 1]

\* The numeral without its leading zeros.
Norm(b) ==
  IF \A i \in 1..Len(b) : b[i] = 0 THEN <<>>
  ELSE SubSeq(b, CHOOSE i \in 1..Len(b) : b[i] = 1 /\ \A j \in 1..(i - 1) : b[j] = 0, Len(b))

\* The w bits of the value v, most significant first.
ValueBits(v, w) == [j \in 1..w |-> (v \div Pow2(w - j)) % 2]

\* BigInt(n) of a non-negative Number n below 2^11.
BigInt(n) == Norm(ValueBits(n, 11))

\* The value of a run of at most 11 bits, most significant first.
BitsValue(bits) ==
  LET n == Len(bits)
      sum[i \in 0..n] == IF i = 0 THEN 0 ELSE 2 * sum[i - 1] + bits[i]
  IN sum[n]

\* Number(b) of a BigInt b below 2^11.
Number(b) == BitsValue(b)

\* b << n
Shl(b, n) == IF b = <<>> THEN <<>> ELSE b \o Zeros(n)

\* b >> n
Shr(b, n) == IF Len(b) <= n THEN <<>> ELSE SubSeq(b, 1, Len(b) - n)

\* a | b: the bits the longer numeral has above the shorter one, then the OR
\* bit by bit.
BitOr(a, b) ==
  LET hi == IF Len(a) >= Len(b) THEN a ELSE b
      lo == IF Len(a) >= Len(b) THEN b ELSE a
      d == Len(hi) - Len(lo)
  IN SubSeq(hi, 1, d) \o [i \in 1..Len(lo) |-> IF hi[d + i] = 1 \/ lo[i] = 1 THEN 1 ELSE 0]

\* a & b: the AND bit by bit of the positions both numerals have.
BitAnd(a, b) ==
  LET m == Min(Len(a), Len(b))
  IN Norm([i \in 1..m |-> IF a[Len(a) - m + i] = 1 /\ b[Len(b) - m + i] = 1 THEN 1 ELSE 0])

\* a < b on numerals.
BigLess(a, b) ==
  \/ Len(a) < Len(b)
  \/ /\ Len(a) = Len(b)
     /\ \E i \in 1..Len(a) : a[i] < b[i] /\ \A j \in 1..(i - 1) : a[j] = b[j]

\* ------------------------------------------------------------ bit packer
\* A packer that puts sec above msec.
packBitsSecFirst(msec, sec, type, seqv) ==
  LET b0 == BigInt(1)
      b1 == BitOr(Shl(b0, SEC_WIDTH), sec)
      b2 == BitOr(Shl(b1, MSEC_WIDTH), BigInt(msec))
      b3 == BitOr(Shl(b2, TYPE_WIDTH), BigInt(type))
      b4 == BitOr(Shl(b3, SEQ_WIDTH), BigInt(seqv))
  IN b4

\* The data bit set of generate: wall bit, msec, sec, type, seq.
packBits(msec, sec, type, seqv) ==
  LET b0 == BigInt(1)
      b1 == BitOr(Shl(b0, MSEC_WIDTH), BigInt(msec))
      b2 == BitOr(Shl(b1, SEC_WIDTH), sec)
      b3 == BitOr(Shl(b2, TYPE_WIDTH), BigInt(type))
      b4 == BitOr(Shl(b3, SEQ_WIDTH), BigInt(seqv))
  IN b4

\* An extraction whose sec mask is one bit short.
unpackBitsNarrowSec(data, shard) ==
  LET seqv == Number(BitAnd(data, BigInt(SEQ_MASK)))
      b1 == Shr(data, SEQ_WIDTH)
      type == Number(BitAnd(b1, BigInt(TYPE_MASK)))
      b2 == Shr(b1, TYPE_WIDTH)
      sec == BitAnd(b2, Ones(SEC_WIDTH - 1))
      b3 == Shr(b2, SEC_WIDTH)
      msec == Number(BitAnd(b3, BigInt(MSEC_MASK)))
  IN [type |-> type, shard |-> shard, seq |-> seqv, msec |-> msec, sec |-> sec]

\* The field extraction of parse, from the unmixed data and shard.
unpackBits(data, shard) ==
  LET seqv == Number(BitAnd(data, BigInt(SEQ_MASK)))
      b1 == Shr(data, SEQ_WIDTH)
      type == Number(BitAnd(b1, BigInt(TYPE_MASK)))
      b2 == Shr(b1, TYPE_WIDTH)
      sec == BitAnd(b2, Ones(SEC_WIDTH))
      b3 == Shr(b2, SEC_WIDTH)
      msec == Number(BitAnd(b3, BigInt(MSEC_MASK)))
  IN [type |-> type, shard |-> shard, seq |-> seqv, msec |-> msec, sec |-> sec]

\* ------------------------------------------------------------ bit mixer
\* (BigInt(shard) >> (SHARD_BIT - i)) & 1n.  shard is a small Number and may be
\* negative: >> on a negative BigInt is the arithmetic shift (floor division).
shardBit(shard, i) == BigInt((shard \div Pow2(SHARD_BIT - i)) % 2)

\* One round of the loop of mixbit.
mixRound(buffer, dataBits, shard, i) ==
  LET withData == BitOr(Shl(buffer, DATA_CHUNK),
                        BitAnd(Shr(dataBits, DATA_BIT - DATA_HEAD_BIT - i * DATA_CHUNK),
                               BigInt(DATA_CHUNK_MASK)))
  IN BitOr(Shl(withData, 1), shardBit(shard, i))

\* The loop of mixbit: for (let i = 1; i <= 10; i++), from the buffer it starts with.
mixLoop(start, dataBits, shard) ==
  LET loop[i \in 1..(MIX_ROUNDS + 1), buffer \in Seq({0, 1})] ==
        IF i > MIX_ROUNDS THEN buffer
        ELSE loop[i + 1, mixRound(buffer, dataBits, shard, i)]
  IN loop[1, start]

mixbit(dataBits, shard) ==
  LET head == Shr(dataBits, DATA_BIT - DATA_HEAD_BIT)
      body == mixLoop(head, dataBits, shard)
  IN BitOr(Shl(body, 1), BitAnd(dataBits, BigInt(1)))

\* A round that steps through the identifier by the data chunk's width.
unmixRoundNarrowStep(bufs, uuid, i) ==
  LET mixedDataBit == DATA_BIT + SHARD_BIT
      dataChunkAndShardBit ==
        BitAnd(Shr(uuid, mixedDataBit - DATA_HEAD_BIT - i * DATA_CHUNK),
               BigInt(MIXED_CHUNK_MASK))
  IN [dataBuffer |-> BitOr(Shl(bufs.dataBuffer, DATA_CHUNK), Shr(dataChunkAndShardBit, 1)),
      shardBuffer |-> BitOr(Shl(bufs.shardBuffer, 1), BitAnd(dataChunkAndShardBit, BigInt(1)))]

\* One round of the loop of unmixbit, on the pair of buffers.
unmixRound(bufs, uuid, i) ==
  LET mixedDataBit == DATA_BIT + SHARD_BIT
      dataChunkAndShardBit ==
        BitAnd(Shr(uuid, mixedDataBit - DATA_HEAD_BIT - i * MIXED_CHUNK),
               BigInt(MIXED_CHUNK_MASK))
  IN [dataBuffer |-> BitOr(Shl(bufs.dataBuffer, DATA_CHUNK), Shr(dataChunkAndShardBit, 1)),
      shardBuffer |-> BitOr(Shl(bufs.shardBuffer, 1), BitAnd(dataChunkAndShardBit, BigInt(1)))]

\* The loop of unmixbit, from the pair of buffers it starts with.
unmixLoop(start, uuid) ==
  LET loop[i \in 1..(MIX_ROUNDS + 1),
           bufs \in [dataBuffer : Seq({0, 1}), shardBuffer : Seq({0, 1})]] ==
        IF i > MIX_ROUNDS THEN bufs
        ELSE loop[i + 1, unmixRound(bufs, uuid, i)]
  IN loop[1, start]

unmixbit(uuid) ==
  LET mixedDataBit == DATA_BIT + SHARD_BIT
      start == [dataBuffer |-> Shr(uuid, mixedDataBit - DATA_HEAD_BIT),
                shardBuffer |-> BigInt(0)]
      bufs == unmixLoop(start, uuid)
  IN [data |-> BitOr(Shl(bufs.dataBuffer, 1), BitAnd(uuid, BigInt(1))),
      shard |-> Number(bufs.shardBuffer)]


\* ------------------------------------------------------------ codec
\* The base64 alphabet of Buffer.toString('base64').
B64Chars ==
  << "A", "B", "C", "D", "E", "F", "G", "H", "I", "J", "K", "L", "M", "N", "O", "P",
     "Q", "R", "S", "T", "U", "V", "W", "X", "Y", "Z", "a", "b", "c", "d", "e", "f",
     "g", "h", "i", "j", "k", "l", "m", "n", "o", "p", "q", "r", "s", "t", "u", "v",
     "w", "x", "y", "z", "0", "1", "2", "3", "4", "5", "6", "7", "8", "9", "+", "/" >>

B64Index(ch) == CHOOSE i \in 1..Len(B64Chars) : B64Chars[i] = ch

\* The bits of a sequence of values, w bits each.
SeqBits(vals, w) ==
  [i \in 1..(w * Len(vals)) |-> ValueBits(vals[((i - 1) \div w) + 1], w)[((i - 1) % w) + 1]]

\* uuid.toString(16): the hexadecimal digits (as digit values), with no leading
\* zero; "0" for 0n.
toString16(b) ==
  IF b = <<>> THEN <<0>>
  ELSE LET n == (Len(b) + 3) \div 4
           p == Zeros(4 * n - Len(b)) \o b
       IN [i \in 1..n |-> BitsValue(SubSeq(p, 4 * i - 3, 4 * i))]

\* Buffer.from(hex, 'hex'): one byte per pair of digits; decoding stops at a
\* digit that has no partner, so the last digit of an odd-length string is lost.
bufferFromHex(h) == [i \in 1..(Len(h) \div 2) |-> 16 * h[2 * i - 1] + h[2 * i]]

\* buffer.toString('base64'): 6 bits per character, the last group filled with
\* zero bits, "=" up to a multiple of four characters.
bufferToBase64(bytes) ==
  LET bits == SeqBits(bytes, 8)
      nchar == (Len(bits) + 5) \div 6
      padded == bits \o Zeros(6 * nchar - Len(bits))
      chars == [i \in 1..nchar |-> B64Chars[1 + BitsValue(SubSeq(padded, 6 * i - 5, 6 * i))]]
      npad == (4 - (nchar % 4)) % 4
  IN chars \o [i \in 1..npad |-> "="]

\* str.replace(/from/g, to)
replaceAll(str, from, to) == [i \in 1..Len(str) |-> IF str[i] = from THEN to ELSE str[i]]

encodeBase64UrlSafe(uuid) ==
  replaceAll(replaceAll(replaceAll(bufferToBase64(bufferFromHex(toString16(uuid))),
                                   "+", "-"), "/", "_"), "=", ".")

\* Buffer.from(str, 'base64'): the characters before the first "=", 6 bits each,
\* cut into whole bytes.
bufferFromBase64(str) ==
  LET pads == {i \in 1..Len(str) : str[i] = "="}
      stop == IF pads = {} THEN Len(str) + 1 ELSE CHOOSE i \in pads : \A j \in pads : i <= j
      vals == [i \in 1..(stop - 1) |-> B64Index(str[i]) - 1]
      bits == SeqBits(vals, 6)
  IN [i \in 1..(Len(bits) \div 8) |-> BitsValue(SubSeq(bits, 8 * i - 7, 8 * i))]

\* buffer.toString('hex'): two digits per byte.
bufferToHex(bytes) ==
  [i \in 1..(2 * Len(bytes)) |->
     IF i % 2 = 1 THEN bytes[(i + 1) \div 2] \div 16 ELSE bytes[i \div 2] % 16]

\* BigInt('0x' + hex): a SyntaxError when no digit follows the prefix.
bigIntFromHex(h) ==
  IF h = <<>> THEN [error |-> "SyntaxError", value |-> <<>>]
  ELSE [error |-> "none", value |-> Norm(SeqBits(h, 4))]

decodeBase64UrlSafe(base64Uuid) ==
  bigIntFromHex(bufferToHex(bufferFromBase64(
    replaceAll(replaceAll(replaceAll(base64Uuid, "-", "+"), "_", "/"), ".", "="))))

\* parse of a token: decode, unmix, extract the fields.
parse(uuid) ==
  LET source == decodeBase64UrlSafe(uuid)
      un == unmixbit(source.value)
  IN IF source.error # "none"
     THEN [error |-> source.error]
     ELSE [error |-> "none", fields |-> unpackBits(un.data, un.shard)]

\* ------------------------------------------------------------ bounds
\* Calls (generate and resetSeq) one run starts.
MaxCalls == 2
\* Calls of the long runs of SpecSeq, which wrap the counter.
SeqMaxCalls == 130
\* Store commands that fail in one run.
MaxFails == 1
\* resetSeq calls of one run.
MaxResets == 1

\* ------------------------------------------------------------ state
VARIABLES
  env,        \* the run's inputs: the types, hints and clock readings drawn, its bounds
  store,      \* the shared store: key -> counter; a key outside DOMAIN is absent
  conn,       \* per caller, the commands sent on its connection and not yet executed
  call,       \* per caller, the generate call suspended at "await this.seq(...)"
  reply,      \* per caller, the store's answer to the awaited eval, not yet resumed
  log,        \* the outcomes delivered to callers, most recent last
  hintCalls,  \* how often shardingHint was called
  nCalls,     \* calls started
  nFails,     \* store commands failed
  nResets,    \* resetSeq calls made
  served,     \* per key, the executions of the script since the key was last
              \* deleted (the last MAX_SEQ + 1 of them): what it read and returned
  incs,       \* per key, how many times the script ran
  run,        \* per key, the seq values delivered since resetSeq last returned
  failed,     \* the calls whose store command failed, with what the caller was told
  arg,        \* the input of the codec specification
  res         \* its result

vars == << env, store, conn, call, reply, log, hintCalls, nCalls, nFails, nResets,
           served, incs, run, failed, arg, res >>

Callers == {"c1", "c2"}

\* a % b of JavaScript: the sign of the dividend.
JsRem(a, b) == IF a >= 0 THEN a % b ELSE -((-a) % b)

seqKey(type, shard) == <<"uuid", type, shard>>

\* const shard = this.shardingHint() % ShardableUUID.SHARD_SLOT, of the hint's value h.
shardOfHint(h) == JsRem(h, SHARD_SLOT)

\* A check that rejects MAX_TYPE too.
typeOutOfRangeInclusive(type) == type >= MAX_TYPE

\* if (type > ShardableUUID.MAX_TYPE) throw new RangeError(...)
typeOutOfRange(type) == type > MAX_TYPE

\* The keys a run can touch.
Keys(e) == {seqKey(t, shardOfHint(h)) : t \in {u \in e.types : ~typeOutOfRange(u)}, h \in e.hints}

\* redis.call('get', KEYS[1]): nil (the empty sequence) or the stored number.
storeGet(key) == IF key \in DOMAIN store THEN <<store[key]>> ELSE <<>>

\* redis.call('set', KEYS[1], seq)
storeSet(key, v) == [k \in DOMAIN store \cup {key} |-> IF k = key THEN v ELSE store[k]]

\* redis.del(key)
storeDel(key) == [k \in DOMAIN store \ {key} |-> store[k]]

\* A script that writes back what it read.
seqScriptNoIncrement(stored, maxSeq) ==
  IF stored = <<>> THEN 0
  ELSE IF stored[1] >= maxSeq THEN 0
  ELSE stored[1]

\* The Lua script of seq(), on what 'get' gave: the value it sets and returns.
seqScript(stored, maxSeq) ==
  IF stored = <<>> THEN 0
  ELSE IF stored[1] >= maxSeq THEN 0
  ELSE stored[1] + 1

\* The mixed identifier of generate: this.mixbit(dataBits, shard).
generateMixed(type, shard, seqv, stamp) ==
  mixbit(packBits(stamp.msec, stamp.sec, type, seqv), shard)

\* What generate returns, of the mixed identifier it encodes.
generateResult(mixed, shard, seqv, stamp) ==
  [uuid |-> encodeBase64UrlSafe(mixed), shard |-> shard,
   sec |-> stamp.sec, msec |-> stamp.msec, seq |-> seqv]

\* The log with one more outcome, in the runs that keep one.
Logged(entry) == IF env.logging THEN Append(log, entry) ELSE log

Entry(op, type, hint, shard, status, result, mixed, n) ==
  [op |-> op, type |-> type, hint |-> hint, shard |-> shard, status |-> status,
   result |-> result, mixed |-> mixed, n |-> n]

InFlight(key) == {c \in Callers : call[c].pc = "seq" /\ seqKey(call[c].type, call[c].shard) = key}

Idle == [pc |-> "idle", type |-> 0, hint |-> 0, shard |-> 0]

\* ------------------------------------------------------------ actions
\* generate(type) up to "await this.seq(type, shard)": the range check, the shard
\* of the hint, the eval sent on the caller's connection.
Generate(c) ==
  /\ call[c].pc = "idle"
  /\ nCalls < env.maxCalls
  /\ nCalls' = nCalls + 1
  /\ \E type \in env.types :
       IF typeOutOfRange(type)
       THEN /\ log' = Logged(Entry("generate", type, 0, 0, "RangeError", <<>>, <<>>, 0))
            /\ UNCHANGED << conn, call, hintCalls, run >>
       ELSE \E h \in env.hints :
              LET shard == shardOfHint(h)
                  key == seqKey(type, shard)
              IN /\ hintCalls' = hintCalls + 1
                 /\ conn' = [conn EXCEPT ![c] = Append(@, [op |-> "eval", key |-> key])]
                 /\ call' = [call EXCEPT ![c] =
                               [pc |-> "seq", type |-> type, hint |-> h, shard |-> shard]]
                 /\ run' = [run EXCEPT ![key].clean = @ /\ InFlight(key) = {}]
                 /\ UNCHANGED log
  /\ UNCHANGED << env, store, reply, nFails, nResets, served, incs, failed, arg, res >>

\* The store runs the script of the eval at the head of a connection, as one step.
StoreEval(c) ==
  /\ conn[c] # <<>>
  /\ Head(conn[c]).op = "eval"
  /\ LET key == Head(conn[c]).key
         stored == storeGet(key)
         seqv == seqScript(stored, MAX_SEQ)
         all == Append(served[key], [read |-> stored, ret |-> seqv])
     IN /\ store' = storeSet(key, seqv)
        /\ reply' = [reply EXCEPT ![c] = <<[error |-> FALSE, seq |-> seqv, n |-> incs[key] + 1]>>]
        /\ served' = [served EXCEPT ![key] = IF Len(all) > MAX_SEQ + 1 THEN Tail(all) ELSE all]
        /\ incs' = [incs EXCEPT ![key] = @ + 1]
  /\ conn' = [conn EXCEPT ![c] = Tail(@)]
  /\ UNCHANGED << env, call, log, hintCalls, nCalls, nFails, nResets, run, failed, arg, res >>

\* The store executes the del at the head of a connection.
StoreDel(c) ==
  /\ conn[c] # <<>>
  /\ Head(conn[c]).op = "del"
  /\ store' = storeDel(Head(conn[c]).key)
  /\ served' = [served EXCEPT ![Head(conn[c]).key] = <<>>]
  /\ conn' = [conn EXCEPT ![c] = Tail(@)]
  /\ UNCHANGED << env, call, reply, log, hintCalls, nCalls, nFails, nResets, incs, run,
                  failed, arg, res >>

\* The command at the head of a connection fails: an awaited eval rejects the
\* promise the caller awaits; nobody holds the promise of a del.
StoreFail(c) ==
  /\ conn[c] # <<>>
  /\ nFails < MaxFails
  /\ nFails' = nFails + 1
  /\ conn' = [conn EXCEPT ![c] = Tail(@)]
  /\ IF Head(conn[c]).op = "eval"
     THEN /\ reply' = [reply EXCEPT ![c] = <<[error |-> TRUE, seq |-> 0, n |-> 0]>>]
          /\ UNCHANGED failed
     ELSE /\ failed' = failed \cup {[op |-> "resetSeq", told |-> Head(conn[c]).told]}
          /\ UNCHANGED reply
  /\ UNCHANGED << env, store, call, log, hintCalls, nCalls, nResets, served, incs, run,
                  arg, res >>

\* generate resumes after the await: the rejection goes to the caller, or the
\* clock is read, the identifier built and the result returned.
Complete(c) ==
  /\ reply[c] # <<>>
  /\ LET r == reply[c][1]
         type == call[c].type
         shard == call[c].shard
         key == seqKey(type, shard)
     IN IF r.error
        THEN /\ log' = Logged(Entry("generate", type, call[c].hint, shard, "StoreError",
                                    <<>>, <<>>, 0))
             /\ failed' = failed \cup {[op |-> "generate", told |-> "StoreError"]}
             /\ UNCHANGED run
        ELSE \E stamp \in env.stamps :
               LET mixed == generateMixed(type, shard, r.seq, stamp)
                   out == generateResult(mixed, shard, r.seq, stamp)
               IN /\ log' = Logged(Entry("generate", type, call[c].hint, shard, "ok",
                                         <<out>>, mixed, r.n))
                  /\ run' = [run EXCEPT ![key].got = IF run[key].clean THEN Append(@, r.seq) ELSE @]
                  /\ UNCHANGED failed
  /\ call' = [call EXCEPT ![c] = Idle]
  /\ reply' = [reply EXCEPT ![c] = <<>>]
  /\ UNCHANGED << env, store, conn, hintCalls, nCalls, nFails, nResets, served, incs, arg, res >>

\* resetSeq(type, shard): the del is sent and the call returns without awaiting it.
ResetSeq(c) ==
  /\ call[c].pc = "idle"
  /\ nCalls < env.maxCalls
  /\ nResets < MaxResets
  /\ nCalls' = nCalls + 1
  /\ nResets' = nResets + 1
  /\ \E key \in Keys(env) :
       /\ conn' = [conn EXCEPT ![c] = Append(@, [op |-> "del", key |-> key, told |-> "ok"])]
       /\ log' = Logged(Entry("resetSeq", key[2], 0, key[3], "ok", <<>>, <<>>, 0))
       /\ run' = [run EXCEPT ![key] =
                    [clean |-> /\ InFlight(key) = {}
                               /\ \A d \in Callers \ {c} :
                                    \A i \in 1..Len(conn[d]) : conn[d][i].key # key,
                     got |-> <<>>]]
  /\ UNCHANGED << env, store, call, reply, hintCalls, nFails, served, incs, failed, arg, res >>

Next ==
  \E c \in Callers :
    \/ Generate(c)
    \/ StoreEval(c)
    \/ StoreDel(c)
    \/ StoreFail(c)
    \/ Complete(c)
    \/ ResetSeq(c)

\* ------------------------------------------------------------ initial states
\* A clock reading: sec as a numeral, msec as an integer.
Stamp(sec, msec) == [sec |-> sec, msec |-> msec]

\* 100 and 101 seconds, and the last second the 34 bits hold.
Sec100 == <<1, 1, 0, 0, 1, 0, 0>>
Sec101 == <<1, 1, 0, 0, 1, 0, 1>>
SecMax == Ones(SEC_WIDTH)

InitWith(e) ==
  /\ env = e
  /\ \E v \in e.stored :
       store = IF v = <<>> THEN [k \in {} |-> 0] ELSE [k \in Keys(e) |-> v[1]]
  /\ conn = [c \in Callers |-> <<>>]
  /\ call = [c \in Callers |-> Idle]
  /\ reply = [c \in Callers |-> <<>>]
  /\ log = <<>>
  /\ hintCalls = 0
  /\ nCalls = 0
  /\ nFails = 0
  /\ nResets = 0
  /\ served = [k \in Keys(e) |-> <<>>]
  /\ incs = [k \in Keys(e) |-> 0]
  /\ run = [k \in Keys(e) |-> [clean |-> FALSE, got |-> <<>>]]
  /\ failed = {}

\* The inputs of the short runs: what the caller passes as type, what the hint
\* function returns, what the clock reads, what the store holds at the start.
\* The ends of the ranges, with a counter about to wrap.
EdgeInputs ==
  [types |-> {0, MAX_TYPE, MAX_TYPE + 1},
   hints |-> {1365},
   stamps |-> {Stamp(SecMax, 999), Stamp(<<>>, 0)},
   stored |-> {<<MAX_SEQ - 1>>},
   maxCalls |-> MaxCalls,
   logging |-> TRUE]

\* Hints below 0, at SHARD_SLOT - 1 and above it.
HintInputs ==
  [types |-> {1},
   hints |-> {-1, SHARD_SLOT - 1, 2 * SHARD_SLOT - 1},
   stamps |-> {Stamp(Sec100, 999)},
   stored |-> {<<>>},
   maxCalls |-> MaxCalls,
   logging |-> TRUE]

\* Clock readings either side of a second's end, on one key.
ClockInputs ==
  [types |-> {1},
   hints |-> {0},
   stamps |-> {Stamp(Sec100, 0), Stamp(Sec100, 999), Stamp(Sec101, 0)},
   stored |-> {<<>>, <<MAX_SEQ - 1>>},
   maxCalls |-> MaxCalls,
   logging |-> TRUE]

Init ==
  /\ arg = [kind |-> "none", p |-> <<>>, s |-> 0]
  /\ res = <<>>
  /\ \E e \in {EdgeInputs, HintInputs, ClockInputs} : InitWith(e)

Spec == Init /\ [][Next]_vars

\* Long runs on one key, which take the counter round.
InitSeq ==
  /\ arg = [kind |-> "none", p |-> <<>>, s |-> 0]
  /\ res = <<>>
  /\ InitWith([types |-> {1},
               hints |-> {0},
               stamps |-> {Stamp(Sec100, 999)},
               stored |-> {<<>>, <<5>>, <<MAX_SEQ>>},
               maxCalls |-> SeqMaxCalls,
               logging |-> FALSE])

\* The calls of generate alone: no resetSeq, no failing store.
NextSeq ==
  \E c \in Callers :
    \/ Generate(c)
    \/ StoreEval(c)
    \/ Complete(c)

SpecSeq == InitSeq /\ [][NextSeq]_vars

\* ------------------------------------------------------------ the codec alone
\* 2^k, and the numeral of n ones.
OneHot(k) == <<1>> \o Zeros(k)

\* The payloads tried: below 2^62, with one bit set, one bit clear, all bits set,
\* every short run of ones, and 0.
PayloadSamples ==
  {OneHot(k) : k \in 0..(DATA_BIT - 1)}
    \cup {Norm(Ones(k) \o <<0>> \o Ones(DATA_BIT - 1 - k)) : k \in 0..(DATA_BIT - 1)}
    \cup {Ones(k) : k \in 0..DATA_BIT}

ShardSamples == {0, 1, 341, 512, 682, 1023}

\* The integers tried on the codec: below 2^72, of every bit length.
CodecSamples ==
  {OneHot(k) : k \in 0..(DATA_BIT + SHARD_BIT - 1)}
    \cup {Ones(k) : k \in 0..(DATA_BIT + SHARD_BIT)}

InitCodec ==
  /\ arg \in [kind : {"mix"}, p : PayloadSamples, s : ShardSamples]
            \cup [kind : {"codec"}, p : CodecSamples, s : {0}]
  /\ res = <<>>
  /\ InitWith([types |-> {1}, hints |-> {0}, stamps |-> {Stamp(Sec100, 999)},
               stored |-> {<<>>}, maxCalls |-> 0, logging |-> FALSE])

\* unmixbit(mixbit(p, s))
ApplyMixer ==
  /\ arg.kind = "mix"
  /\ res = <<>>
  /\ LET mixed == mixbit(arg.p, arg.s)
     IN res' = <<[mixed |-> mixed, token |-> <<>>, out |-> unmixbit(mixed)]>>
  /\ UNCHANGED << env, store, conn, call, reply, log, hintCalls, nCalls, nFails, nResets,
                  served, incs, run, failed, arg >>

\* decodeBase64UrlSafe(encodeBase64UrlSafe(x))
ApplyCodec ==
  /\ arg.kind = "codec"
  /\ res = <<>>
  /\ LET token == encodeBase64UrlSafe(arg.p)
     IN res' = <<[mixed |-> arg.p, token |-> token, out |-> decodeBase64UrlSafe(token)]>>
  /\ UNCHANGED << env, store, conn, call, reply, log, hintCalls, nCalls, nFails, nResets,
                  served, incs, run, failed, arg >>

NextCodec == ApplyMixer \/ ApplyCodec

SpecCodec == InitCodec /\ [][NextCodec]_vars

\* ------------------------------------------------------------ claims
OkGenerate(e) == e.op = "generate" /\ e.status = "ok"

\* What parse must give for the result r of generate(type).
Fields(type, r) ==
  [type |-> type, shard |-> r.shard, seq |-> r.seq, msec |-> r.msec, sec |-> r.sec]

\* C1: every result of generate with a type and a shard in 0..1023 parses back
\* to the type, shard, sec, msec and seq generate returned.
C1_RoundTrip ==
  \A i \in 1..Len(log) :
    (/\ OkGenerate(log[i])
     /\ log[i].type \in 0..MAX_TYPE
     /\ log[i].result[1].shard \in 0..(SHARD_SLOT - 1))
      => parse(log[i].result[1].uuid)
           = [error |-> "none", fields |-> Fields(log[i].type, log[i].result[1])]

\* A result with the largest type, seq and sec, and a shard whose bits are not
\* a palindrome, has been returned.
C1_Witness ==
  \E i \in 1..Len(log) :
    /\ OkGenerate(log[i])
    /\ log[i].type = MAX_TYPE
    /\ log[i].result[1].shard = 341
    /\ log[i].result[1].seq = MAX_SEQ
    /\ log[i].result[1].sec = SecMax

\* C2: the script runs as one step: among the executions of one key that lie
\* within MAX_SEQ + 1 of each other no two read the same stored state and no
\* two return the same seq, and two calls that hold their answers at the same
\* time hold different ones.
C2_AtomicSeq ==
  /\ \A k \in DOMAIN served :
       /\ Cardinality({served[k][i].read : i \in 1..Len(served[k])}) = Len(served[k])
       /\ Cardinality({served[k][i].ret : i \in 1..Len(served[k])}) = Len(served[k])
  /\ \A c, d \in Callers :
       (/\ c # d
        /\ reply[c] # <<>>
        /\ reply[d] # <<>>
        /\ ~reply[c][1].error
        /\ ~reply[d][1].error
        /\ seqKey(call[c].type, call[c].shard) = seqKey(call[d].type, call[d].shard)
        /\ reply[c][1].n < reply[d][1].n
        /\ reply[d][1].n - reply[c][1].n <= MAX_SEQ)
         => reply[c][1].seq # reply[d][1].seq

\* Two calls on one key hold their answers at the same time, after the counter
\* went round: the last MAX_SEQ + 1 executions start above the value they end at.
C2_Witness ==
  /\ reply["c1"] # <<>>
  /\ reply["c2"] # <<>>
  /\ \E k \in DOMAIN served :
       /\ Len(served[k]) = MAX_SEQ + 1
       /\ served[k][1].ret > served[k][MAX_SEQ + 1].ret

\* C3: after resetSeq has returned, the sequential generate calls on its key
\* receive 0, 1, ..., MAX_SEQ, 0, ...
C3_ResetThenCount ==
  \A k \in DOMAIN run :
    run[k].clean =>
      \A i \in 1..Len(run[k].got) : run[k].got[i] = (i - 1) % (MAX_SEQ + 1)

\* C4: generate fails with a RangeError exactly when type > MAX_TYPE, with no
\* result, and the step that fails so calls no hint and sends nothing to the store.
C4_RangeCheck ==
  [][/\ \A i \in 1..Len(log') :
          log'[i].op = "generate" =>
            /\ (log'[i].status = "RangeError") <=> (log'[i].type > MAX_TYPE)
            /\ log'[i].status = "RangeError" => log'[i].result = <<>>
     /\ \A c \in Callers : call'[c].pc = "seq" => call'[c].type <= MAX_TYPE
     /\ (log' # log /\ log'[Len(log')].status = "RangeError")
          => UNCHANGED << hintCalls, store, conn, call, reply >>]_vars

\* generate(1024) has failed and generate(1023) has returned a result.
C4_Witness ==
  /\ \E i \in 1..Len(log) : log[i].status = "RangeError" /\ log[i].type = MAX_TYPE + 1
  /\ \E i \in 1..Len(log) : OkGenerate(log[i]) /\ log[i].type = MAX_TYPE

\* C5: unmixbit(mixbit(p, s)) = (p, s).
C5_MixRoundTrip ==
  (arg.kind = "mix" /\ res # <<>>) => res[1].out = [data |-> arg.p, shard |-> arg.s]

\* The round trip was made on a payload with its top bit set and a shard whose
\* bits are not a palindrome.
C5_Witness ==
  /\ arg.kind = "mix"
  /\ res # <<>>
  /\ Len(arg.p) = DATA_BIT
  /\ arg.s = 341

\* C6: decodeBase64UrlSafe(encodeBase64UrlSafe(x)) = x.
C6_CodecRoundTrip ==
  (arg.kind = "codec" /\ res # <<>>) => res[1].out = [error |-> "none", value |-> arg.p]

\* C7: a call whose store command failed has told its caller of the failure,
\* and a failed generate returns no result.
C7_FailuresReported ==
  /\ \A f \in failed : f.told = "StoreError"
  /\ \A i \in 1..Len(log) : log[i].status = "StoreError" => log[i].result = <<>>

\* C8: the shard of a call is the hint mod SHARD_SLOT, in 0..SHARD_SLOT - 1:
\* the one returned, the one of the key, the one in the identifier.
C8_ShardInRange ==
  /\ \A c \in Callers :
       call[c].pc = "seq" =>
         call[c].shard = call[c].hint % SHARD_SLOT /\ call[c].shard \in 0..(SHARD_SLOT - 1)
  /\ \A i \in 1..Len(log) :
       OkGenerate(log[i]) =>
         /\ log[i].result[1].shard = log[i].hint % SHARD_SLOT
         /\ log[i].result[1].shard \in 0..(SHARD_SLOT - 1)
         /\ unmixbit(log[i].mixed).shard = log[i].result[1].shard

\* Two results of one type and shard.
SameTypeAndShard(i, j) ==
  /\ OkGenerate(log[i])
  /\ OkGenerate(log[j])
  /\ log[i].type = log[j].type
  /\ log[i].result[1].shard = log[j].result[1].shard

\* (sec, msec) of a is strictly earlier than that of b.
Earlier(a, b) == BigLess(a.sec, b.sec) \/ (a.sec = b.sec /\ a.msec < b.msec)

\* (msec, sec) of a is before that of b: msec first.
MsecFirstBefore(a, b) == a.msec < b.msec \/ (a.msec = b.msec /\ BigLess(a.sec, b.sec))

\* C9 as claimed: of two results of one type and shard, the one with the
\* earlier (sec, msec) has the smaller mixed identifier.
C9_SortedByTime ==
  \A i, j \in 1..Len(log) :
    (SameTypeAndShard(i, j) /\ Earlier(log[i].result[1], log[j].result[1]))
      => BigLess(log[i].mixed, log[j].mixed)

\* C9 as amended: of two results of one type and shard, the one with the
\* smaller msec, or with the same msec and the smaller sec, has the smaller
\* mixed identifier.
C9_SortedByMsecThenSec ==
  \A i, j \in 1..Len(log) :
    (SameTypeAndShard(i, j) /\ MsecFirstBefore(log[i].result[1], log[j].result[1]))
      => BigLess(log[i].mixed, log[j].mixed)

\* Two results of one type and shard, the later one with the smaller msec.
C9_Witness ==
  \E i, j \in 1..Len(log) :
    /\ SameTypeAndShard(i, j)
    /\ log[i].result[1].msec < log[j].result[1].msec
    /\ BigLess(log[j].result[1].sec, log[i].result[1].sec)

\* C10: without resetSeq, two calls return the same token only if they have the
\* same type, shard, sec and msec and lie a multiple of MAX_SEQ + 1 increments
\* of their key apart.
C10_UniqueTokens ==
  nResets = 0 =>
    \A i, j \in 1..Len(log) :
      (/\ i < j
       /\ OkGenerate(log[i])
       /\ OkGenerate(log[j])
       /\ log[i].result[1].uuid = log[j].result[1].uuid)
        => /\ log[i].type = log[j].type
           /\ log[i].result[1].shard = log[j].result[1].shard
           /\ log[i].result[1].sec = log[j].result[1].sec
           /\ log[i].result[1].msec = log[j].result[1].msec
           /\ (log[j].n - log[i].n) % (MAX_SEQ + 1) = 0
====
